---- MODULE Spec2Model ----
(***************************************************************************)
(* The notebook "2D channel with time-dependent boundary conditions":      *)
(* the tidal flux function timedep_flux, the forcing scalar                *)
(* tide_flux_const, the boundary dictionary swe_bnd and the callback       *)
(* update_forcings that the solver's time loop invokes once per step.      *)
(*                                                                         *)
(* Python floats are IEEE-754 binary64.  A float is modelled as a record   *)
(* [s, m, e] standing for (-1)^s * m * 2^e, with m a 53-bit natural number *)
(* (2^52 <= m < 2^53) or zero, and every arithmetic operation rounds the   *)
(* exact result to the nearest such number, ties to even, as the hardware  *)
(* does; math.sin alone is the libm's, which may return the float on the   *)
(* other side of the true sine, so sin and timedep_flux give the set of    *)
(* floats a call can return.  TLC's integers are 32 bits wide, so the      *)
(* 53-bit mantissas                                                        *)
(* and the wider intermediate results are naturals in base 2^15, least     *)
(* significant limb first, without leading zero limbs (zero is <<>>).      *)
(* Simulation times are integer-valued floats (seconds), kept as integers. *)
(***************************************************************************)
EXTENDS Integers, Sequences, FiniteSets

\* ------------------------------------------------------------------------
\* Naturals of arbitrary size (the substrate of the float arithmetic).
\* ------------------------------------------------------------------------

LimbBits == 5 * 3
Base == 2 ^ LimbBits

Zeros(n) == [k \in 1..n |-> 0]

RECURSIVE BNorm(_)
BNorm(a) ==
    IF a = <<>> THEN a
    ELSE IF a[Len(a)] = 0 THEN BNorm(SubSeq(a, 1, Len(a) - 1))
    ELSE a

BLimb(a, k) == IF k <= Len(a) THEN a[k] ELSE 0

RECURSIVE BAddFrom(_, _, _, _, _)
BAddFrom(a, b, k, c, acc) ==
    IF k > Len(a) /\ k > Len(b)
    THEN (IF c = 0 THEN acc ELSE Append(acc, c))
    ELSE LET s == BLimb(a, k) + BLimb(b, k) + c
         IN  BAddFrom(a, b, k + 1, s \div Base, Append(acc, s % Base))

BAdd(a, b) == BAddFrom(a, b, 1, 0, <<>>)

\* a - b for a >= b
RECURSIVE BSubFrom(_, _, _, _, _)
BSubFrom(a, b, k, c, acc) ==
    IF k > Len(a) THEN BNorm(acc)
    ELSE LET d == a[k] - BLimb(b, k) - c
         IN  IF d < 0 THEN BSubFrom(a, b, k + 1, 1, Append(acc, d + Base))
             ELSE BSubFrom(a, b, k + 1, 0, Append(acc, d))

BSub(a, b) == BSubFrom(a, b, 1, 0, <<>>)

RECURSIVE BCmpAt(_, _, _)
BCmpAt(a, b, k) ==
    IF k = 0 THEN 0
    ELSE IF a[k] > b[k] THEN 1
    ELSE IF a[k] < b[k] THEN -1
    ELSE BCmpAt(a, b, k - 1)

\* -1, 0, 1 as a < b, a = b, a > b
BCmp(a, b) ==
    IF Len(a) > Len(b) THEN 1
    ELSE IF Len(a) < Len(b) THEN -1
    ELSE BCmpAt(a, b, Len(a))

\* a * k for 0 <= k <= Base
RECURSIVE BMulSmallFrom(_, _, _, _, _)
BMulSmallFrom(a, k, j, c, acc) ==
    IF j > Len(a) THEN (IF c = 0 THEN acc ELSE Append(acc, c))
    ELSE LET p == a[j] * k + c
         IN  BMulSmallFrom(a, k, j + 1, p \div Base, Append(acc, p % Base))

BMulSmall(a, k) == IF k = 0 THEN <<>> ELSE BMulSmallFrom(a, k, 1, 0, <<>>)

RECURSIVE BMulFrom(_, _, _, _)
BMulFrom(a, b, j, acc) ==
    IF j > Len(b) THEN acc
    ELSE IF b[j] = 0 THEN BMulFrom(a, b, j + 1, acc)
    ELSE BMulFrom(a, b, j + 1, BAdd(acc, Zeros(j - 1) \o BMulSmall(a, b[j])))

BMul(a, b) == IF a = <<>> \/ b = <<>> THEN <<>> ELSE BMulFrom(a, b, 1, <<>>)

\* floor(a / k) and a mod k, for 0 < k < 2 * Base
RECURSIVE BDivSmallFrom(_, _, _, _, _)
BDivSmallFrom(a, k, j, r, acc) ==
    IF j = 0 THEN [q |-> BNorm(acc), r |-> r]
    ELSE LET cur == r * Base + a[j]
         IN  BDivSmallFrom(a, k, j - 1, cur % k, <<cur \div k>> \o acc)

BDivSmall(a, k) == BDivSmallFrom(a, k, Len(a), 0, <<>>)

\* a * 2^n
BShl(a, n) ==
    IF a = <<>> THEN <<>>
    ELSE Zeros(n \div LimbBits) \o BMulSmall(a, 2 ^ (n % LimbBits))

\* floor(a / 2^n)
BShr(a, n) ==
    IF n \div LimbBits >= Len(a) THEN <<>>
    ELSE BDivSmall(SubSeq(a, n \div LimbBits + 1, Len(a)), 2 ^ (n % LimbBits)).q

\* number of bits of a (0 for zero)
BitLen(a) ==
    IF a = <<>> THEN 0
    ELSE LimbBits * (Len(a) - 1)
         + (CHOOSE n \in 1..LimbBits : 2 ^ (n - 1) <= a[Len(a)] /\ a[Len(a)] < 2 ^ n)

RECURSIVE BFromNat(_)
BFromNat(n) == IF n = 0 THEN <<>> ELSE <<n % Base>> \o BFromNat(n \div Base)

\* ------------------------------------------------------------------------
\* IEEE-754 binary64 values and operations (Python float).
\* ------------------------------------------------------------------------

MantBits == 53

FZero == [s |-> 0, m |-> <<>>, e |-> 0]

\* The float nearest to (-1)^s * M * 2^E, ties to even.  A nonzero lowest bit of M
\* that only marks "something nonzero lies below" (a sticky bit) is sound as long
\* as M has more than MantBits + 1 bits.
FRound(s, M, E) ==
    IF M = <<>> THEN FZero
    ELSE LET n == BitLen(M)
         IN  IF n <= MantBits
             THEN [s |-> s, m |-> BShl(M, MantBits - n), e |-> E - (MantBits - n)]
             ELSE LET sh   == n - MantBits
                      q    == BShr(M, sh)
                      rem  == BSub(M, BShl(q, sh))
                      half == BShl(<<1>>, sh - 1)
                      c    == BCmp(rem, half)
                      up   == c = 1 \/ (c = 0 /\ q[1] % 2 = 1)
                      q1   == IF up THEN BAdd(q, <<1>>) ELSE q
                  IN  IF BitLen(q1) > MantBits
                      THEN [s |-> s, m |-> BShr(q1, 1), e |-> E + sh + 1]
                      ELSE [s |-> s, m |-> q1, e |-> E + sh]

\* float(k) for an integer k (exact: |k| < 2^31)
FromInt(k) == FRound(IF k < 0 THEN 1 ELSE 0, BFromNat(IF k < 0 THEN -k ELSE k), 0)

FNeg(a) == IF a.m = <<>> THEN a ELSE [a EXCEPT !.s = 1 - a.s]

\* a * b
FMul(a, b) == FRound((a.s + b.s) % 2, BMul(a.m, b.m), a.e + b.e)

DivGuard == 5 * LimbBits

\* a / d for a float a and an integer-valued float d, 0 < d < 2 * Base
FDivInt(a, d) ==
    IF a.m = <<>> THEN FZero
    ELSE LET qr == BDivSmall(BShl(a.m, DivGuard), d)
             q2 == BAdd(BShl(qr.q, 1), IF qr.r = 0 THEN <<>> ELSE <<1>>)
         IN  FRound(a.s, q2, a.e - DivGuard - 1)

\* a + b
FAdd(a, b) ==
    IF a.m = <<>> THEN b
    ELSE IF b.m = <<>> THEN a
    ELSE LET e  == IF a.e < b.e THEN a.e ELSE b.e
             A  == BShl(a.m, a.e - e)
             B  == BShl(b.m, b.e - e)
             c  == BCmp(A, B)
         IN  IF a.s = b.s THEN FRound(a.s, BAdd(A, B), e)
             ELSE IF c = 0 THEN FZero
             ELSE IF c = 1 THEN FRound(a.s, BSub(A, B), e)
             ELSE FRound(b.s, BSub(B, A), e)

\* |a| < 2^k
FAbsBelowPow2(a, k) == a.m = <<>> \/ a.e + MantBits <= k

\* a <= b
FLeq(a, b) ==
    LET d == FAdd(a, FNeg(b)) IN d.m = <<>> \/ d.s = 1

\* ------------------------------------------------------------------------
\* math.sin and math.pi, as `from thetis import *` provides them for floats.
\* ------------------------------------------------------------------------

\* math.pi = 0x1.921fb54442d18p+1, the float nearest to pi
pi == [s |-> 0, m |-> <<11544, 10376, 2029, 201>>, e |-> -51]

\* sin works in fixed point with FracBits fractional bits
FracBits == 10 * LimbBits
FixedOne == BShl(<<1>>, FracBits)

\* round(pi/2 * 2^FracBits)
HalfPiFixed ==
    <<295, 20777, 14393, 11779, 13076, 19532, 6214, 2138, 27985, 18703, 1>>

\* X = q * pi/2 + r with 0 <= r < pi/2
RECURSIVE ReduceQuadrant(_, _)
ReduceQuadrant(X, q) ==
    IF BCmp(X, HalfPiFixed) = -1 THEN [r |-> X, q |-> q]
    ELSE ReduceQuadrant(BSub(X, HalfPiFixed), q + 1)

\* term - term*r2/(n(n+1)) + term*r2^2/(n(n+1)(n+2)(n+3)) - ... : the Taylor series
\* of sin r (term = r, n = 2) and of cos r (term = 1, n = 1), r2 = r^2
RECURSIVE Series(_, _, _, _, _, _)
Series(term, n, r2, sign, pos, neg) ==
    IF term = <<>> THEN BSub(pos, neg)
    ELSE Series(BDivSmall(BShr(BMul(term, r2), FracBits), n * (n + 1)).q,
                n + 2, r2, 1 - sign,
                IF sign = 0 THEN BAdd(pos, term) ELSE pos,
                IF sign = 1 THEN BAdd(neg, term) ELSE neg)

\* how far the libm's sine may lie from the true sine, in units in the last
\* place: SinErrNum / SinErrDen (glibc's sin is accurate to about 0.55 ulp)
SinErrNum == 55
SinErrDen == 100

\* The floats within SinErrNum / SinErrDen ulp of (-1)^s * M * 2^E: the nearest
\* float, and the float on the other side too when the value lies that close to
\* the middle between the two.
FNear(s, M, E) ==
    IF BitLen(M) <= MantBits THEN {FRound(s, M, E)}
    ELSE LET sh   == BitLen(M) - MantBits
             q    == BShr(M, sh)
             rem  == BSub(M, BShl(q, sh))
             gap  == BShl(<<1>>, sh)
             lim  == BMulSmall(gap, SinErrNum)
             down == BCmp(BMulSmall(rem, SinErrDen), lim) <= 0
             up   == BCmp(BMulSmall(BSub(gap, rem), SinErrDen), lim) <= 0
         IN  (IF down THEN {FRound(s, q, E + sh)} ELSE {})
             \cup (IF up THEN {FRound(s, BAdd(q, <<1>>), E + sh)} ELSE {})

\* math.sin(x): the results the platform's libm can return for the float x.  The
\* sine is computed to FracBits bits; the libm returns the float nearest to it or,
\* where the sine lies near the middle between two floats, possibly the other one
\* (which one is the build's choice: the same argument always gives the same
\* float).  The set has one element for most arguments, never more than two.
sin(x) ==
    IF x.m = <<>> \/ x.e + FracBits < 0 THEN {x}
    ELSE LET red == ReduceQuadrant(BShl(x.m, x.e + FracBits), 0)
             r2  == BShr(BMul(red.r, red.r), FracBits)
             v   == IF red.q % 2 = 0
                    THEN Series(red.r, 2, r2, 0, <<>>, <<>>)
                    ELSE Series(FixedOne, 1, r2, 0, <<>>, <<>>)
         IN  FNear((x.s + (red.q % 4) \div 2) % 2, v, -FracBits)

\* ------------------------------------------------------------------------
\* The notebook's values and its flux function.
\* ------------------------------------------------------------------------

\* variant: the baseline doubled
in_flux_doubled == 2 * 1000
in_flux == 1000
\* variant: the amplitude with its sign lost
tide_amp_positive == 2 * 1000
tide_amp == -2000
tide_t == 12 * 3600

\* variant: the factor 2 forgotten
angle_half(simulation_time) ==
    FDivInt(FMul(pi, FromInt(simulation_time)), tide_t)

\* 2 * pi * simulation_time / tide_t, evaluated left to right
angle(simulation_time) ==
    FDivInt(FMul(FMul(FromInt(2), pi), FromInt(simulation_time)), tide_t)

\* def timedep_flux(simulation_time):
\*     flux = tide_amp*sin(2 * pi * simulation_time / tide_t) + in_flux
\*     return flux
\* The values the call can return: one for each result of sin.
timedep_flux(simulation_time) ==
    {FAdd(FMul(FromInt(tide_amp), sn), FromInt(in_flux)) :
        sn \in sin(angle(simulation_time))}

\* variant: one hour instead of two
t_end_short == 1 * 3600
t_end == 2 * 3600
\* variant: a step of which 1000 is no multiple
timestep_coarse == 3 * 50
timestep == 50
left_bnd_id == 1
right_bnd_id == 2
plot_time == <<1000, 2000, 4000, 7000>>

\* ------------------------------------------------------------------------
\* State.
\* ------------------------------------------------------------------------

VARIABLES
    pc,               \* where control is: the solver's loop or a line of update_forcings
    dt,               \* the solver's time step (options.timestep)
    simulation_time,  \* the solver's clock
    iteration,        \* the solver's count of completed steps
    t_new,            \* the argument of the current (or last) update_forcings call
    i,                \* position of the for loop in plot_time (0 outside the loop)
    tide_flux_const,  \* the value held by the Constant tide_flux_const
    swe_bnd,          \* the boundary dictionary
    plots,            \* log of the plot(elev) calls, in order
    steps             \* log of the arguments update_forcings was called with

vars == <<pc, dt, simulation_time, iteration, t_new, i, tide_flux_const,
          swe_bnd, plots, steps>>

\* swe_bnd = {right_bnd_id: {'elev': Constant(0.0), 'flux': Constant(-in_flux)},
\*            left_bnd_id: {'flux': tide_flux_const}}
\* A value is an anonymous Constant, [val |-> its float], or the shared object,
\* [obj |-> "tide_flux_const"].
swe_bnd_built ==
    [b \in {left_bnd_id, right_bnd_id} |->
        IF b = right_bnd_id
        THEN [elev |-> [val |-> FZero], flux |-> [val |-> FromInt(-in_flux)]]
        ELSE [flux |-> [obj |-> "tide_flux_const"]]]

\* what the solver reads for boundary b, role r
bnd_value(b, r) ==
    IF "obj" \in DOMAIN swe_bnd[b][r] THEN tide_flux_const ELSE swe_bnd[b][r].val

\* the cells up to solver_obj.iterate(...)
Setup(step) ==
    /\ pc = "iterate"
    /\ dt = step
    /\ simulation_time = 0
    /\ iteration = 0
    /\ t_new = 0
    /\ i = 0
    /\ tide_flux_const \in timedep_flux(0)
    /\ swe_bnd = swe_bnd_built
    /\ plots = <<>>
    /\ steps = <<>>

Init == Setup(timestep)

\* ------------------------------------------------------------------------
\* update_forcings(t_new), statement by statement.
\* ------------------------------------------------------------------------

\* variant: the trigger loop placed before the assignment
After_checkfirst(l) ==
    CASE l = "L245" -> "L248"
      [] l = "L248" -> "L249"
      [] l = "L249" -> "L247"
      [] l = "L247" -> "returned"

\* the statement executed after line l completes (the for loop: after it is exhausted)
After(l) ==
    CASE l = "L245" -> "L247"
      [] l = "L247" -> "L248"
      [] l = "L248" -> "L249"
      [] l = "L249" -> "returned"

\* variant: a window of one second around the trigger
Matches_window(t, trigger) == t - trigger \in -1..1

\* variant: the step nearest to the trigger fires
Matches_nearest(t, trigger) ==
    2 * (IF t > trigger THEN t - trigger ELSE trigger - t) < dt

\* if t_new == i  (a float compared with an int: equal values)
Matches(t, trigger) == t = trigger

\* uv, elev = solver_obj.fields.solution_2d.split()
L245 ==
    /\ pc = "L245"
    /\ pc' = After("L245")
    /\ UNCHANGED <<dt, simulation_time, iteration, t_new, i, tide_flux_const,
                   swe_bnd, plots, steps>>

\* variant: the assignment left out
L247_skip ==
    /\ pc = "L247"
    /\ pc' = After("L247")
    /\ UNCHANGED <<dt, simulation_time, iteration, t_new, i, tide_flux_const,
                   swe_bnd, plots, steps>>

\* variant: a new Constant bound in the dictionary instead of assigning in place
L247_rebind ==
    /\ pc = "L247"
    /\ \E flux \in timedep_flux(t_new) :
           swe_bnd' = [swe_bnd EXCEPT ![left_bnd_id].flux = [val |-> flux]]
    /\ pc' = After("L247")
    /\ UNCHANGED <<dt, simulation_time, iteration, t_new, i, tide_flux_const,
                   plots, steps>>

\* tide_flux_const.assign(timedep_flux(t_new))
L247 ==
    /\ pc = "L247"
    /\ tide_flux_const' \in timedep_flux(t_new)
    /\ pc' = After("L247")
    /\ UNCHANGED <<dt, simulation_time, iteration, t_new, i, swe_bnd, plots, steps>>

\* plot_time = [1000,2000,4000,7000]
L248 ==
    /\ pc = "L248"
    /\ i' = 1
    /\ pc' = After("L248")
    /\ UNCHANGED <<dt, simulation_time, iteration, t_new, tide_flux_const,
                   swe_bnd, plots, steps>>

\* for i in plot_time:
\*     if t_new == i:
L249 ==
    /\ pc = "L249"
    /\ IF i > Len(plot_time)
       THEN pc' = After("L249") /\ i' = 0
       ELSE IF Matches(t_new, plot_time[i])
       THEN pc' = "L251" /\ i' = i
       ELSE pc' = "L249" /\ i' = i + 1
    /\ UNCHANGED <<dt, simulation_time, iteration, t_new, tide_flux_const,
                   swe_bnd, plots, steps>>

\*         plot(elev)
\* The log keeps the call's time, the trigger that matched and the forcing value
\* in force when the field was drawn.
L251 ==
    /\ pc = "L251"
    /\ plots' = Append(plots, [t |-> t_new, at |-> plot_time[i],
                               flux |-> tide_flux_const])
    /\ i' = i + 1
    /\ pc' = "L249"
    /\ UNCHANGED <<dt, simulation_time, iteration, t_new, tide_flux_const,
                   swe_bnd, steps>>

update_forcings == L245 \/ L247 \/ L248 \/ L249 \/ L251

\* ------------------------------------------------------------------------
\* solver_obj.iterate(update_forcings=update_forcings): the time loop.
\* ------------------------------------------------------------------------

\* while simulation_time <= simulation_end_time - t_epsilon: a step begins and
\* calls update_forcings(simulation_time + dt).  Times are whole seconds and
\* t_epsilon is below one, so the test is simulation_time < t_end.
SolverCall ==
    /\ pc = "iterate"
    /\ simulation_time < t_end
    /\ t_new' = simulation_time + dt
    /\ steps' = Append(steps, simulation_time + dt)
    /\ pc' = "L245"
    /\ UNCHANGED <<dt, simulation_time, iteration, i, tide_flux_const, swe_bnd, plots>>

\* the callback has returned: the step is solved and the clock moves on
SolverAdvance ==
    /\ pc = "returned"
    /\ iteration' = iteration + 1
    /\ simulation_time' = (iteration + 1) * dt
    /\ pc' = "iterate"
    /\ UNCHANGED <<dt, t_new, i, tide_flux_const, swe_bnd, plots, steps>>

\* the end time is reached
SolverFinish ==
    /\ pc = "iterate"
    /\ simulation_time >= t_end
    /\ pc' = "done"
    /\ UNCHANGED <<dt, simulation_time, iteration, t_new, i, tide_flux_const,
                   swe_bnd, plots, steps>>

Next == SolverCall \/ update_forcings \/ SolverAdvance \/ SolverFinish

\* The notebook's run.
Spec == Init /\ [][Next]_vars

\* The loop is the only thread and each of its steps returns: it keeps running.
\* This is weak fairness of every step.  For L247 it is written out, with
\* ENABLED <<L247>>_vars spelled as its guard pc = "L247" (the step always changes
\* pc), so that enabledness is decided without evaluating the float arithmetic.
Fairness ==
    /\ WF_vars(SolverCall \/ SolverAdvance \/ SolverFinish
                \/ L245 \/ L248 \/ L249 \/ L251)
    /\ ([]<>(pc # "L247") \/ []<><<L247>>_vars)

FairSpec == Spec /\ Fairness

\* ------------------------------------------------------------------------
\* The same run under other step sizes (a step size is chosen before the run).
\* ------------------------------------------------------------------------

MaxStepMult == 8
StepSizes == {k * timestep : k \in 1..MaxStepMult}

InitAnyStep == \E step \in StepSizes : Setup(step)

SpecAnyStep == InitAnyStep /\ [][Next]_vars
FairSpecAnyStep == SpecAnyStep /\ Fairness

\* ------------------------------------------------------------------------
\* One call update_forcings(t_new) at an arbitrary time, after the setup cells.
\* ------------------------------------------------------------------------

MaxEvalK == 288
EvalStride == 9 * timestep
CallTimes ==
    {k * EvalStride : k \in 0..MaxEvalK}
    \cup {plot_time[j] + d : j \in 1..Len(plot_time), d \in -1..1}

InitCall ==
    /\ pc = "L245"
    /\ dt = timestep
    /\ simulation_time = 0
    /\ iteration = 0
    /\ t_new \in CallTimes
    /\ i = 0
    /\ tide_flux_const \in timedep_flux(0)
    /\ swe_bnd = swe_bnd_built
    /\ plots = <<>>
    /\ steps = <<t_new>>

NextCall == update_forcings

SpecCall == InitCall /\ [][NextCall]_vars

\* ------------------------------------------------------------------------
\* Properties.
\* ------------------------------------------------------------------------

LastStep == steps[Len(steps)]
AfterCallback == pc \in {"returned", "iterate", "done"}
InCallback == pc \in {"L245", "L247", "L248", "L249", "L251"}

\* tolerance of the comparisons "within floating-point tolerance": 2^TolExp
TolExp == 0 - 30

\* |a - b| < 2^k
FClose(a, b, k) == FAbsBelowPow2(FAdd(a, FNeg(b)), k)

\* the tolerance of periodicity, per period elapsed at the later time:
\* the argument of sin carries a relative rounding error, so the distance
\* between two values one period apart grows with the number of periods
PeriodTolExp == 0 - 36

\* the number of whole periods elapsed at time t + tide_t
PeriodsElapsed(t) == (t + tide_t) \div tide_t

\* |a - b| < n * 2^k
FCloseTimes(a, b, n, k) ==
    LET d == FAdd(a, FNeg(b))
    IN  \/ d.m = <<>>
        \/ IF d.e >= k THEN BCmp(BShl(d.m, d.e - k), BFromNat(n)) < 0
           ELSE BCmp(d.m, BShl(BFromNat(n), k - d.e)) < 0

RECURSIVE BToNat(_)
BToNat(a) == IF a = <<>> THEN 0 ELSE a[1] + Base * BToNat(Tail(a))

\* the integer nearest to 1000 * a (ties away from zero), for |a| < 2^20:
\* a float read in thousandths
FMilli(a) ==
    IF a.m = <<>> THEN 0
    ELSE LET M  == BMulSmall(a.m, 1000)
             tw == IF a.e + 1 >= 0 THEN BShl(M, a.e + 1) ELSE BShr(M, 0 - (a.e + 1))
             n  == (BToNat(tw) + 1) \div 2
         IN  IF a.s = 1 THEN 0 - n ELSE n

\* C1: the forcing scalar equals the formula's value at the last observed time:
\* a value of timedep_flux(0) before the first step, and a value of
\* timedep_flux(t_new) once update_forcings(t_new) has returned, as read through
\* the boundary dictionary.
C1_ForcingFollowsClock ==
    AfterCallback =>
        /\ bnd_value(left_bnd_id, "flux") = tide_flux_const
        /\ tide_flux_const \in
               IF steps = <<>> THEN timedep_flux(0) ELSE timedep_flux(LastStep)

C1_Witness ==
    /\ pc = "returned"
    /\ LastStep = 7200
    /\ tide_flux_const \in timedep_flux(7200)
    /\ tide_flux_const \notin timedep_flux(7150)
    /\ FMilli(tide_flux_const) = -732051

\* C2: in the notebook's run (step 50, end 7200) the field is plotted at 1000,
\* 2000, 4000 and 7000, once each and at no other time: four plots by the end.
C2_FourPlots ==
    /\ \A k \in 1..Len(plots) : plots[k].t \in {1000, 2000, 4000, 7000}
    /\ \A j, k \in 1..Len(plots) : j < k => plots[j].t < plots[k].t
    /\ pc = "done" =>
           [k \in 1..Len(plots) |-> plots[k].t] = <<1000, 2000, 4000, 7000>>

C2_Witness ==
    /\ pc = "done"
    /\ Len(plots) = 4
    /\ plots[4].t = 7000

\* C3: one call update_forcings(t_new) plots exactly once if t_new is one of 1000,
\* 2000, 4000, 7000 and not at all otherwise (999 and 1001 do not plot).
C3_ExactMatch ==
    /\ Len(plots) <= 1
    /\ pc = "returned" =>
           Len(plots) = IF t_new \in {1000, 2000, 4000, 7000} THEN 1 ELSE 0

C3_Witness ==
    /\ pc = "returned"
    /\ t_new = 1000
    /\ Len(plots) = 1
    /\ plots[1].at = 1000

\* C4 as stated: timedep_flux returns exactly 1000 at t = 0, -1000 at t = 10800
\* and 1000 at t = 21600.
C4_ExactValues ==
    pc = "returned" =>
        /\ t_new = 0 => tide_flux_const = FromInt(1000)
        /\ t_new = 10800 => tide_flux_const = FromInt(-1000)
        /\ t_new = 21600 => tide_flux_const = FromInt(1000)

\* C4, amended: timedep_flux returns exactly 1000 at t = 0 and exactly -1000 at
\* t = 10800; at t = 21600 it returns a float that is not 1000 but lies within
\* 2^-30 of it (2*pi*21600/43200 rounds to a float above pi, whose sine is not 0).
C4_ValuesWithinTolerance ==
    pc = "returned" =>
        /\ t_new = 0 => tide_flux_const = FromInt(1000)
        /\ t_new = 10800 => tide_flux_const = FromInt(-1000)
        /\ t_new = 21600 =>
               /\ tide_flux_const # FromInt(1000)
               /\ FClose(tide_flux_const, FromInt(1000), TolExp)

\* 1000 + 6 * 2^-43 = 1000.0000000000007
C4_Witness ==
    /\ pc = "returned"
    /\ t_new = 21600
    /\ tide_flux_const = [s |-> 0, m |-> <<6, 0, 0, 250>>, e |-> -43]

\* C5 as stated: timedep_flux(t) equals timedep_flux(t + 43200) for every t,
\* also beyond one period: the value the call returned is a value the call one
\* period later can return.
C5_ExactPeriodic ==
    pc = "returned" => tide_flux_const \in timedep_flux(t_new + 43200)

\* C5: periodicity up to rounding: every value of timedep_flux(t) and every value
\* of timedep_flux(t + 43200) differ by less than 2^-36 times the number of whole
\* periods elapsed at t + 43200, also for t beyond one period; they need not be
\* the same float.
C5_Periodic ==
    pc = "returned" =>
        \A shifted \in timedep_flux(t_new + 43200) :
            FCloseTimes(tide_flux_const, shifted, PeriodsElapsed(t_new), PeriodTolExp)

\* a time beyond one period at which the two values differ in their last bits
\* and are within the bound
C5_Witness ==
    /\ pc = "returned"
    /\ t_new = 43200 + 450
    /\ tide_flux_const \in timedep_flux(t_new)
    /\ tide_flux_const \notin timedep_flux(t_new + 43200)
    /\ \A shifted \in timedep_flux(t_new + 43200) :
           FCloseTimes(tide_flux_const, shifted, PeriodsElapsed(t_new), PeriodTolExp)

\* C6: update_forcings changes only the contents of the forcing scalar: while it
\* runs, the solver's clock and the boundary dictionary stay as they are, and the
\* dictionary always is {1: {flux: the forcing scalar}, 2: {elev: 0, flux: -1000}}.
C6_Frame ==
    /\ [](/\ DOMAIN swe_bnd = {1, 2}
          /\ DOMAIN swe_bnd[1] = {"flux"}
          /\ swe_bnd[1].flux = [obj |-> "tide_flux_const"]
          /\ DOMAIN swe_bnd[2] = {"elev", "flux"}
          /\ swe_bnd[2].elev = [val |-> FZero]
          /\ swe_bnd[2].flux = [val |-> FromInt(-1000)])
    /\ [][InCallback =>
            /\ swe_bnd' = swe_bnd
            /\ simulation_time' = simulation_time
            /\ iteration' = iteration
            /\ dt' = dt]_vars

C6_Witness ==
    /\ pc = "returned"
    /\ simulation_time = 950
    /\ t_new = 1000
    /\ tide_flux_const \in timedep_flux(1000)
    /\ swe_bnd = swe_bnd_built

\* C7: the run ends: update_forcings is called once per step, each call starting
\* from the solver's loop after the previous one returned, with strictly increasing
\* t_new, and the run is eventually done after exactly 144 calls, the last at 7200.
C7_Terminates ==
    /\ <>(pc = "done")
    /\ [](pc = "done" => Len(steps) = 144 /\ LastStep = 7200)
    /\ [](\A k \in 2..Len(steps) : steps[k - 1] < steps[k])
    /\ [](Len(steps) = iteration + (IF InCallback \/ pc = "returned" THEN 1 ELSE 0))
    /\ [][pc' = "L245" => pc = "iterate"]_vars

C7_Witness ==
    /\ pc = "done"
    /\ Len(steps) = 144
    /\ simulation_time = 7200

\* C8: silent skip: a trigger instant on which no step lands is never plotted
\* (every plot is for a trigger some step landed on), the run still completes,
\* and the forcing scalar is updated at every step all the same.
C8_SilentSkip ==
    /\ <>(pc = "done")
    /\ [](\A k \in 1..Len(plots) : \E j \in 1..Len(steps) : steps[j] = plots[k].at)
    /\ [](AfterCallback /\ steps # <<>> => tide_flux_const \in timedep_flux(LastStep))

\* step 150: 48 steps, none on 1000, 2000, 4000 or 7000, and nothing plotted
C8_Witness ==
    /\ pc = "done"
    /\ dt = 150
    /\ Len(steps) = 48
    /\ \A j \in 1..Len(steps) : steps[j] \notin {1000, 2000, 4000, 7000}
    /\ plots = <<>>
    /\ tide_flux_const \in timedep_flux(7200)

\* C9: within one call the assignment precedes the trigger check: when plot(elev)
\* is about to run, and in every plot logged, the forcing scalar is a value of
\* timedep_flux(t_new), not the previous step's value.
C9_AssignBeforePlot ==
    /\ pc = "L251" => tide_flux_const \in timedep_flux(t_new)
    /\ pc = "done" =>
           \A k \in 1..Len(plots) : plots[k].flux \in timedep_flux(plots[k].t)

C9_Witness ==
    /\ pc = "L251"
    /\ t_new = 1000
    /\ tide_flux_const \in timedep_flux(1000)
    /\ tide_flux_const \notin timedep_flux(950)
    /\ FMilli(tide_flux_const) = 710136

\* C10: the forcing scalar always lies within [-1000, 3000].
C10_Range ==
    /\ FLeq(FromInt(-1000), tide_flux_const)
    /\ FLeq(tide_flux_const, FromInt(3000))

\* the lower end is attained at a quarter period
C10_Witness ==
    /\ pc = "returned"
    /\ t_new = 10800
    /\ tide_flux_const = FromInt(-1000)

====
